---- MODULE Spec2Model ----
(***************************************************************************)
(* Model of the sparse linear layer and of the model loader:               *)
(*   vllm/model_executor/model_loader.py            (get_model)            *)
(*   vllm/model_executor/layers/sparsity/sparse_w16a16_linear_method.py    *)
(*                                  (create_weights, apply_weights)        *)
(*                                                                         *)
(* Three specifications share the variables:                               *)
(*   Spec       get_model, step by step, called again and again            *)
(*   SpecLayer  one linear method: create_weights, loading, apply_weights  *)
(*   SpecApply  apply_weights as a function of any weight, input and bias  *)
(***************************************************************************)
EXTENDS Integers, Sequences, FiniteSets, TLC

VARIABLES
    default_dtype,  \* torch's process-wide default dtype
    pc,             \* position of the running get_model call
    args,           \* the call's model_config / lora_config / device / model class
    old_dtype,      \* _set_default_torch_dtype's local old_dtype
    linear_method,  \* get_model's local linear_method, the layer's own method
    model,          \* get_model's local model
    raised,         \* the exception the call ended with
    weight,         \* the layer's LazyCompressedParameter
    call,           \* the last apply_weights call's x and bias
    result          \* what that call returned or raised

vars == <<default_dtype, pc, args, old_dtype, linear_method, model, raised,
          weight, call, result>>

(************************* bounds of the model *****************************)
\* largest size of one leading dimension of x
MaxDim == 4
\* largest number of leading dimensions of x
MaxRank == 2
\* largest output_size_per_partition
MaxOut == 2
\* largest input_size_per_partition
MaxIn == 2

(***************************** values **************************************)
None == [kind |-> "None"]

Dtypes == {"float16", "bfloat16", "float32"}

SparseBEGemmStorageFormat == "SparseBEGemmStorageFormat"
SparseSemiStructuredStorageFormat == "SparseSemiStructuredStorageFormat"
\* the other subclasses of CompressedStorageFormat
StorageFormats ==
    {SparseBEGemmStorageFormat, SparseSemiStructuredStorageFormat,
     "GenericCompressed", "Dense"}

MinCapabilities == {75, 80}

QuantConfigs ==
    [kind : {"quant"}, min_capability : MinCapabilities,
     supported_act_dtypes : {{"float16"}}]

SparseConfigs ==
    [kind : {"sparse"}, min_capability : MinCapabilities,
     supported_act_dtypes : {{"float16", "bfloat16"}},
     storage_format_cls : StorageFormats]

DeviceCapabilities == {7, 8} \X {0, 5}

\* SparseW16A16LinearMethod.__init__
SparseW16A16LinearMethod(storage_format_cls) ==
    [kind |-> "sparse", storage_format_cls |-> storage_format_cls]

\* QuantizationConfig.get_linear_method / SparsityConfig.get_linear_method
get_linear_method(config) ==
    IF config.kind = "sparse"
    THEN SparseW16A16LinearMethod(config.storage_format_cls)
    ELSE [kind |-> "quant"]

(***************************** tensors *************************************)
\* A tensor is its shape and, row by row of its flattened leading dimensions,
\* the input row each row was computed from (0: a zero row added as padding).
RECURSIVE Prod(_)
Prod(shape) == IF shape = <<>> THEN 1 ELSE Head(shape) * Prod(Tail(shape))

Leading(shape) == SubSeq(shape, 1, Len(shape) - 1)

Last(shape) == shape[Len(shape)]

Tensor(shape) ==
    [shape |-> shape, rows |-> [i \in 1..Prod(Leading(shape)) |-> i]]

NoTensor == [shape |-> <<>>, rows |-> <<>>]

LeadingShapes == UNION {[1..r -> 1..MaxDim] : r \in 0..MaxRank}

Biases == {"None", "bias"}

\* what apply_weights returned (status "ok") or raised
Returned(kernel, operand, bias, kernel_rows, out) ==
    [status |-> "ok", at |-> "", kernel |-> kernel, operand |-> operand,
     bias |-> bias, kernel_rows |-> kernel_rows, out |-> out]

Raised(status, at) ==
    [status |-> status, at |-> at, kernel |-> "", operand |-> "",
     bias |-> "", kernel_rows |-> 0, out |-> NoTensor]

NoResult == Raised("None", "")

NoCall == [x |-> NoTensor, bias |-> "None"]

\* torch.Tensor.reshape(-1, x.shape[-1]) and torch.Tensor.reshape(out_shape)
reshape(t, shape) == [shape |-> shape, rows |-> t.rows]

reshape_ok(t, shape) == Len(t.rows) * Last(t.shape) = Prod(shape)

\* torch.nn.functional.linear: weight is (out_features, in_features)
F_linear_ok(x, w_shape) == Last(x.shape) = w_shape[2]

F_linear(x, w_shape) ==
    [shape |-> Leading(x.shape) \o <<w_shape[1]>>, rows |-> x.rows]

\* F.linear on a semi-structured sparse weight: the kernel takes row counts
\* that are multiples of 8 only
sparse_linear_ok(x, w_shape) ==
    F_linear_ok(x, w_shape) /\ x.shape[1] % 8 = 0

\* magic_wand.semi_structured.pad_tensor_to_multiple
pad_tensor_to_multiple(t, multiple) ==
    LET n == t.shape[1]
        padding == (multiple - (n % multiple)) % multiple
    IN  <<[shape |-> <<n + padding, t.shape[2]>>,
           rows |-> t.rows \o [i \in 1..padding |-> 0]],
          [start |-> 0, stop |-> n]>>

\* magic_wand.semi_structured.extract_valid_rows
extract_valid_rows(t, valid_rows_range) ==
    [shape |-> <<valid_rows_range.stop - valid_rows_range.start, t.shape[2]>>,
     rows |-> SubSeq(t.rows, valid_rows_range.start + 1, valid_rows_range.stop)]

\* magic_wand.ops.be_ds_gemm: x @ compressed, the weight stored transposed
be_ds_gemm(x, compressed_shape) ==
    [shape |-> <<x.shape[1], compressed_shape[2]>>, rows |-> x.rows]

(******************** LazyCompressedParameter ******************************)
LazyCompressedParameter(shape, storage_format_cls, compress_transposed) ==
    [shape |-> shape, storage_format_cls |-> storage_format_cls,
     compress_transposed |-> compress_transposed, payload |-> "Empty"]

has_uncompressed_data(w) == w.payload = "Uncompressed"

has_compressed_data(w) == w.payload = "Compressed"

\* the shape of compressed_data: the transposed weight when compress_transposed
compressed_shape(w) ==
    IF w.compress_transposed THEN <<w.shape[2], w.shape[1]>> ELSE w.shape

\* the external loader: the weight stays dense when it is not sparse enough
\* for its format, and is compressed (transposed when compress_transposed)
\* otherwise
Populate(w, sparse_enough) ==
    IF sparse_enough /\ w.storage_format_cls # "Dense"
    THEN [w EXCEPT !.payload = "Compressed"]
    ELSE [w EXCEPT !.payload = "Uncompressed"]

Weights ==
    [shape : (1..MaxOut) \X (1..MaxIn), storage_format_cls : StorageFormats,
     compress_transposed : BOOLEAN,
     payload : {"Empty", "Uncompressed", "Compressed"}]

(******************** SparseW16A16LinearMethod *****************************)
\* faulty variant: the flag is passed as supports_linear instead of its negation
create_weights_Inverted(self, input_size_per_partition, output_size_per_partition) ==
    LET supports_linear ==
            self.storage_format_cls # SparseBEGemmStorageFormat
    IN  LazyCompressedParameter(
            <<output_size_per_partition, input_size_per_partition>>,
            self.storage_format_cls, supports_linear)

\* faulty variant: compress_transposed is not passed and keeps its default, False
create_weights_NeverTransposed(self, input_size_per_partition, output_size_per_partition) ==
    LazyCompressedParameter(
        <<output_size_per_partition, input_size_per_partition>>,
        self.storage_format_cls, FALSE)

create_weights(self, input_size_per_partition, output_size_per_partition) ==
    LET supports_linear ==
            self.storage_format_cls # SparseBEGemmStorageFormat
    IN  LazyCompressedParameter(
            <<output_size_per_partition, input_size_per_partition>>,
            self.storage_format_cls, ~supports_linear)

\* if w.has_uncompressed_data: F.linear(x, w.uncompressed_data, bias)
UncompressedBranch(w, x, bias) ==
    IF has_compressed_data(w) THEN Raised("AssertionError", "has_compressed_data")
    ELSE IF ~F_linear_ok(x, w.shape) THEN Raised("RuntimeError", "F.linear")
    ELSE Returned("F.linear", "uncompressed_data", bias,
                  Len(x.rows), F_linear(x, w.shape))

\* faulty variant: `assert bias is None` is missing, the bias is dropped silently
SemiStructuredBranch_NoBiasAssert(w, x, bias) ==
    IF ~has_compressed_data(w)
    THEN Raised("AttributeError", "compressed_data")
    ELSE
      LET w_encap == compressed_shape(w)
          out_shape == Leading(x.shape) \o <<w_encap[1]>>
          padded == pad_tensor_to_multiple(
                        reshape(x, <<Prod(Leading(x.shape)), Last(x.shape)>>), 8)
          reshaped_x == padded[1]
          valid_rows_range == padded[2]
          output == extract_valid_rows(F_linear(reshaped_x, w_encap),
                                       valid_rows_range)
      IN  IF ~sparse_linear_ok(reshaped_x, w_encap)
          THEN Raised("RuntimeError", "F.linear")
          ELSE IF ~reshape_ok(output, out_shape)
          THEN Raised("RuntimeError", "reshape")
          ELSE Returned("F.linear", "encapsulated_torch_sparse_tensor",
                        "zeros", Len(reshaped_x.rows),
                        reshape(output, out_shape))

\* faulty variant: the padded output is reshaped without extract_valid_rows
SemiStructuredBranch_NoExtract(w, x, bias) ==
    IF bias # "None" THEN Raised("AssertionError", "bias is None")
    ELSE IF ~has_compressed_data(w)
    THEN Raised("AttributeError", "compressed_data")
    ELSE
      LET w_encap == compressed_shape(w)
          out_shape == Leading(x.shape) \o <<w_encap[1]>>
          padded == pad_tensor_to_multiple(
                        reshape(x, <<Prod(Leading(x.shape)), Last(x.shape)>>), 8)
          reshaped_x == padded[1]
          output == F_linear(reshaped_x, w_encap)
      IN  IF ~sparse_linear_ok(reshaped_x, w_encap)
          THEN Raised("RuntimeError", "F.linear")
          ELSE IF ~reshape_ok(output, out_shape)
          THEN Raised("RuntimeError", "reshape")
          ELSE Returned("F.linear", "encapsulated_torch_sparse_tensor",
                        "zeros", Len(reshaped_x.rows),
                        reshape(output, out_shape))

\* elif self.storage_format_cls == SparseSemiStructuredStorageFormat
SemiStructuredBranch(w, x, bias) ==
    IF bias # "None" THEN Raised("AssertionError", "bias is None")
    ELSE IF ~has_compressed_data(w)
    THEN Raised("AttributeError", "compressed_data")
    ELSE
      LET w_encap == compressed_shape(w)
          out_shape == Leading(x.shape) \o <<w_encap[1]>>
          padded == pad_tensor_to_multiple(
                        reshape(x, <<Prod(Leading(x.shape)), Last(x.shape)>>), 8)
          reshaped_x == padded[1]
          valid_rows_range == padded[2]
          output == extract_valid_rows(F_linear(reshaped_x, w_encap),
                                       valid_rows_range)
      IN  IF ~sparse_linear_ok(reshaped_x, w_encap)
          THEN Raised("RuntimeError", "F.linear")
          ELSE IF ~reshape_ok(output, out_shape)
          THEN Raised("RuntimeError", "reshape")
          ELSE Returned("F.linear", "encapsulated_torch_sparse_tensor",
                        "zeros", Len(reshaped_x.rows),
                        reshape(output, out_shape))

\* elif self.storage_format_cls == SparseBEGemmStorageFormat
BEGemmBranch(w, x, bias) ==
    IF bias # "None" THEN Raised("AssertionError", "bias is None")
    ELSE IF ~w.compress_transposed
    THEN Raised("AssertionError", "compress_transposed")
    ELSE IF ~has_compressed_data(w)
    THEN Raised("TypeError", "be_ds_gemm")
    ELSE
      LET out_shape == Leading(x.shape) \o <<w.shape[1]>>
          reshaped_x == reshape(x, <<Prod(Leading(x.shape)), Last(x.shape)>>)
          y == be_ds_gemm(reshaped_x, compressed_shape(w))
      IN  IF reshaped_x.shape[2] # compressed_shape(w)[1]
          THEN Raised("RuntimeError", "be_ds_gemm")
          ELSE IF ~reshape_ok(y, out_shape)
          THEN Raised("RuntimeError", "reshape")
          ELSE Returned("be_ds_gemm", "compressed_data", "None",
                        Len(reshaped_x.rows), reshape(y, out_shape))

\* faulty variant: `assert not w.compress_transposed` is missing
DecompressBranch_NoAssert(w, x, bias) ==
    IF ~has_compressed_data(w)
    THEN Raised("AttributeError", "compressed_data")
    ELSE IF ~F_linear_ok(x, compressed_shape(w))
    THEN Raised("RuntimeError", "F.linear")
    ELSE Returned("F.linear", "decompress", bias,
                  Len(x.rows), F_linear(x, compressed_shape(w)))

\* else: F.linear(x, w.compressed_data.decompress(), bias)
DecompressBranch(w, x, bias) ==
    IF w.compress_transposed
    THEN Raised("AssertionError", "not compress_transposed")
    ELSE IF ~has_compressed_data(w)
    THEN Raised("AttributeError", "compressed_data")
    ELSE IF ~F_linear_ok(x, compressed_shape(w))
    THEN Raised("RuntimeError", "F.linear")
    ELSE Returned("F.linear", "decompress", bias,
                  Len(x.rows), F_linear(x, compressed_shape(w)))

\* faulty variant: the format branches are tried before has_uncompressed_data
apply_weights_FormatFirst(self, w, x, bias) ==
    IF self.storage_format_cls = SparseSemiStructuredStorageFormat
    THEN SemiStructuredBranch(w, x, bias)
    ELSE IF self.storage_format_cls = SparseBEGemmStorageFormat
    THEN BEGemmBranch(w, x, bias)
    ELSE IF has_uncompressed_data(w) THEN UncompressedBranch(w, x, bias)
    ELSE DecompressBranch(w, x, bias)

apply_weights(self, w, x, bias) ==
    IF has_uncompressed_data(w) THEN UncompressedBranch(w, x, bias)
    ELSE IF self.storage_format_cls = SparseSemiStructuredStorageFormat
    THEN SemiStructuredBranch(w, x, bias)
    ELSE IF self.storage_format_cls = SparseBEGemmStorageFormat
    THEN BEGemmBranch(w, x, bias)
    ELSE DecompressBranch(w, x, bias)

(******************************* get_model *********************************)
CallArgs ==
    [architecture_supported : BOOLEAN, supports_lora : BOOLEAN,
     quantization : {None} \cup QuantConfigs,
     sparsity : {None} \cup SparseConfigs,
     dtype : Dtypes, load_format : {"dummy", "auto"},
     lora_config : BOOLEAN, device_capability : DeviceCapabilities]

NoArgs ==
    [architecture_supported |-> FALSE, supports_lora |-> FALSE,
     quantization |-> None, sparsity |-> None, dtype |-> "float32",
     load_format |-> "auto", lora_config |-> FALSE,
     device_capability |-> <<7, 0>>]

\* a raise outside the default-dtype context
Raise(error) ==
    /\ pc' = "failed"
    /\ raised' = error
    /\ UNCHANGED <<default_dtype, args, old_dtype, linear_method, model,
                   weight, call, result>>

\* a raise inside `with _set_default_torch_dtype(...)`: the generator is
\* thrown the exception at its yield and has no try/finally around it, so
\* the statement after the yield does not run
RaiseInContext(error) ==
    /\ pc' = "failed"
    /\ raised' = error
    /\ UNCHANGED <<default_dtype, args, old_dtype, linear_method, model,
                   weight, call, result>>

CallGetModel ==
    /\ pc = "idle"
    /\ \E a \in CallArgs : args' = a
    /\ pc' = "architecture"
    /\ linear_method' = None
    /\ model' = None
    /\ weight' = None
    /\ raised' = "None"
    /\ old_dtype' = "None"
    /\ UNCHANGED <<default_dtype, call, result>>

\* _get_model_architecture
GetModelArchitecture ==
    /\ pc = "architecture"
    /\ IF args.architecture_supported
       THEN /\ pc' = "quantization"
            /\ UNCHANGED <<default_dtype, args, old_dtype, linear_method,
                           model, raised, weight, call, result>>
       ELSE Raise("ArchitectureNotSupported")

\* capability[0] * 10 + capability[1]
Capability(device_capability) ==
    device_capability[1] * 10 + device_capability[2]

\* faulty variant: the capability comparison is missing from the quantization block
QuantizationGate_NoCapabilityCheck ==
    /\ pc = "quantization"
    /\ IF args.quantization = None
       THEN /\ pc' = "sparsity"
            /\ UNCHANGED <<default_dtype, args, old_dtype, linear_method,
                           model, raised, weight, call, result>>
       ELSE LET quant_config == args.quantization
            IN  IF args.dtype \notin quant_config.supported_act_dtypes
                THEN Raise("QuantizationDtypeUnsupported")
                ELSE /\ linear_method' = get_linear_method(quant_config)
                     /\ pc' = "sparsity"
                     /\ UNCHANGED <<default_dtype, args, old_dtype, model,
                                    raised, weight, call, result>>

\* if model_config.quantization is not None: ...
QuantizationGate ==
    /\ pc = "quantization"
    /\ IF args.quantization = None
       THEN /\ pc' = "sparsity"
            /\ UNCHANGED <<default_dtype, args, old_dtype, linear_method,
                           model, raised, weight, call, result>>
       ELSE LET quant_config == args.quantization
                capability == Capability(args.device_capability)
            IN  IF capability < quant_config.min_capability
                THEN Raise("QuantizationCapabilityTooLow")
                ELSE IF args.dtype \notin quant_config.supported_act_dtypes
                THEN Raise("QuantizationDtypeUnsupported")
                ELSE /\ linear_method' = get_linear_method(quant_config)
                     /\ pc' = "sparsity"
                     /\ UNCHANGED <<default_dtype, args, old_dtype, model,
                                    raised, weight, call, result>>

\* faulty variant: the sparsity block tests the dtype before the capability
SparsityGate_DtypeFirst ==
    /\ pc = "sparsity"
    /\ IF args.sparsity = None
       THEN /\ pc' = "enter"
            /\ UNCHANGED <<default_dtype, args, old_dtype, linear_method,
                           model, raised, weight, call, result>>
       ELSE LET sparse_config == args.sparsity
                capability == Capability(args.device_capability)
            IN  IF args.dtype \notin sparse_config.supported_act_dtypes
                THEN Raise("SparsityDtypeUnsupported")
                ELSE IF capability < sparse_config.min_capability
                THEN Raise("SparsityCapabilityTooLow")
                ELSE /\ linear_method' = get_linear_method(sparse_config)
                     /\ pc' = "enter"
                     /\ UNCHANGED <<default_dtype, args, old_dtype, model,
                                    raised, weight, call, result>>

\* if model_config.sparsity is not None: ...
SparsityGate ==
    /\ pc = "sparsity"
    /\ IF args.sparsity = None
       THEN /\ pc' = "enter"
            /\ UNCHANGED <<default_dtype, args, old_dtype, linear_method,
                           model, raised, weight, call, result>>
       ELSE LET sparse_config == args.sparsity
                capability == Capability(args.device_capability)
            IN  IF capability < sparse_config.min_capability
                THEN Raise("SparsityCapabilityTooLow")
                ELSE IF args.dtype \notin sparse_config.supported_act_dtypes
                THEN Raise("SparsityDtypeUnsupported")
                ELSE /\ linear_method' = get_linear_method(sparse_config)
                     /\ pc' = "enter"
                     /\ UNCHANGED <<default_dtype, args, old_dtype, model,
                                    raised, weight, call, result>>

\* _set_default_torch_dtype up to its yield
EnterDefaultDtype ==
    /\ pc = "enter"
    /\ old_dtype' = default_dtype
    /\ default_dtype' = args.dtype
    /\ pc' = "construct"
    /\ UNCHANGED <<args, linear_method, model, raised, weight, call, result>>

\* model_class(hf_config, linear_method[, lora_config]): the layers' weights
\* are created empty by the linear method
Instantiate(with_lora) ==
    \/ RaiseInContext("ModelInitError")
    \/ /\ model' = [kind |-> "model", linear_method |-> linear_method,
                    lora |-> with_lora, loaded |-> FALSE, training |-> TRUE]
       /\ IF linear_method.kind = "sparse"
          THEN \E i \in 1..MaxIn, o \in 1..MaxOut :
                   weight' = create_weights(linear_method, i, o)
          ELSE weight' = None
       /\ pc' = "load"
       /\ UNCHANGED <<default_dtype, args, old_dtype, linear_method, raised,
                      call, result>>

ConstructModel ==
    /\ pc = "construct"
    /\ IF args.supports_lora
       THEN Instantiate(args.lora_config)
       ELSE IF args.lora_config
       THEN RaiseInContext("LoRANotSupported")
       ELSE Instantiate(FALSE)

\* initialize_dummy_weights(model) or model.load_weights(...)
LoadWeights ==
    /\ pc = "load"
    /\ \/ /\ args.load_format # "dummy"
          /\ RaiseInContext("LoadWeightsError")
       \/ /\ \E sparse_enough \in BOOLEAN :
                /\ args.load_format = "dummy" => ~sparse_enough
                /\ weight' = IF weight = None THEN None
                             ELSE Populate(weight, sparse_enough)
          /\ model' = [model EXCEPT !.loaded = TRUE]
          /\ pc' = "exit"
          /\ UNCHANGED <<default_dtype, args, old_dtype, linear_method,
                         raised, call, result>>

\* _set_default_torch_dtype after its yield, then return model.eval()
ExitDefaultDtype ==
    /\ pc = "exit"
    /\ default_dtype' = old_dtype
    /\ model' = [model EXCEPT !.training = FALSE]
    /\ pc' = "returned"
    /\ UNCHANGED <<args, old_dtype, linear_method, raised, weight, call,
                   result>>

\* the call is over: its frame is gone, the process goes on
ReturnToCaller ==
    /\ pc \in {"returned", "failed"}
    /\ pc' = "idle"
    /\ args' = NoArgs
    /\ old_dtype' = "None"
    /\ linear_method' = None
    /\ model' = None
    /\ raised' = "None"
    /\ weight' = None
    /\ UNCHANGED <<default_dtype, call, result>>

Init ==
    /\ default_dtype = "float32"
    /\ pc = "idle"
    /\ args = NoArgs
    /\ old_dtype = "None"
    /\ linear_method = None
    /\ model = None
    /\ raised = "None"
    /\ weight = None
    /\ call = NoCall
    /\ result = NoResult

Next ==
    \/ CallGetModel
    \/ GetModelArchitecture
    \/ QuantizationGate
    \/ SparsityGate
    \/ EnterDefaultDtype
    \/ ConstructModel
    \/ LoadWeights
    \/ ExitDefaultDtype
    \/ ReturnToCaller

Spec == Init /\ [][Next]_vars

(*************** one linear layer: create, load, apply *********************)
LinearMethods == {SparseW16A16LinearMethod(f) : f \in StorageFormats}

Inputs(w) ==
    {[x |-> Tensor(lead \o <<w.shape[2]>>), bias |-> b] :
        lead \in LeadingShapes, b \in Biases}

LayerCreateWeights ==
    /\ pc = "layer"
    /\ weight = None
    /\ \E i \in 1..MaxIn, o \in 1..MaxOut :
           weight' = create_weights(linear_method, i, o)
    /\ UNCHANGED <<default_dtype, pc, args, old_dtype, linear_method, model,
                   raised, call, result>>

LayerLoadWeights ==
    /\ pc = "layer"
    /\ weight # None
    /\ weight.payload = "Empty"
    /\ \E sparse_enough \in BOOLEAN :
           weight' = Populate(weight, sparse_enough)
    /\ UNCHANGED <<default_dtype, pc, args, old_dtype, linear_method, model,
                   raised, call, result>>

ApplyWeights ==
    /\ pc \in {"layer", "apply"}
    /\ weight # None
    /\ pc = "apply" => result = NoResult
    /\ \E c \in Inputs(weight) :
           /\ pc = "apply" => c = call
           /\ call' = c
           /\ result' = apply_weights(linear_method, weight, c.x, c.bias)
    /\ UNCHANGED <<default_dtype, pc, args, old_dtype, linear_method, model,
                   raised, weight>>

InitLayer ==
    /\ default_dtype = "float32"
    /\ pc = "layer"
    /\ args = NoArgs
    /\ old_dtype = "None"
    /\ linear_method \in LinearMethods
    /\ model = None
    /\ raised = "None"
    /\ weight = None
    /\ call = NoCall
    /\ result = NoResult

NextLayer == LayerCreateWeights \/ LayerLoadWeights \/ ApplyWeights

SpecLayer == InitLayer /\ [][NextLayer]_vars

(************* apply_weights on any weight, input and bias *****************)
InitApply ==
    /\ default_dtype = "float32"
    /\ pc = "apply"
    /\ args = NoArgs
    /\ old_dtype = "None"
    /\ linear_method \in LinearMethods
    /\ model = None
    /\ raised = "None"
    /\ weight \in {w \in Weights :
                      w.storage_format_cls = linear_method.storage_format_cls}
    /\ call \in Inputs(weight)
    /\ result = NoResult

NextApply == ApplyWeights

SpecApply == InitApply /\ [][NextApply]_vars

(******************************* claims ************************************)
FlatRows(x) == Prod(Leading(x.shape))

Identity(n) == [i \in 1..n |-> i]

Applied == result # NoResult

\* C1 (SpecApply): whenever the payload is Uncompressed, apply_weights
\* returns the dense linear transform of x with uncompressed_data and the
\* caller's bias (None or not), whatever the storage format, bias or
\* compress_transposed: no assertion of a format branch is evaluated.
C1_UncompressedIsDenseLinear ==
    (Applied /\ weight.payload = "Uncompressed") =>
        result = Returned("F.linear", "uncompressed_data", call.bias,
                          FlatRows(call.x),
                          [shape |-> Leading(call.x.shape) \o <<weight.shape[1]>>,
                           rows |-> Identity(FlatRows(call.x))])

C1_Witness ==
    /\ Applied
    /\ weight.payload = "Uncompressed"
    /\ weight.storage_format_cls = SparseBEGemmStorageFormat
    /\ ~weight.compress_transposed
    /\ call.bias = "bias"
    /\ result.status = "ok"
    /\ result.bias = "bias"

\* C5 (SpecApply): with a Compressed payload, a bias that is not None makes
\* the SparseSemiStructured and SparseBEGemm branches fail their
\* `assert bias is None` before any kernel is called; under any other
\* format the bias is not refused, and it is the bias of the dense
\* transform whenever that branch's own precondition (not
\* compress_transposed) lets the call reach it.
C5_BiasPrecondition ==
    (Applied /\ weight.payload = "Compressed" /\ call.bias # "None") =>
        IF linear_method.storage_format_cls \in
               {SparseSemiStructuredStorageFormat, SparseBEGemmStorageFormat}
        THEN /\ result.status = "AssertionError"
             /\ result.at = "bias is None"
             /\ result.kernel = ""
        ELSE /\ result.at # "bias is None"
             /\ ~weight.compress_transposed =>
                    /\ result.status = "ok"
                    /\ result.kernel = "F.linear"
                    /\ result.operand = "decompress"
                    /\ result.bias = call.bias

C5_Witness ==
    /\ Applied
    /\ weight.payload = "Compressed"
    /\ call.bias = "bias"
    /\ linear_method.storage_format_cls = SparseSemiStructuredStorageFormat
    /\ result.status = "AssertionError"
    /\ result.at = "bias is None"

\* C6 (SpecApply): with a Compressed payload, SparseBEGemm fails an
\* assertion when compress_transposed is false, and the decompress fallback
\* (any format but SparseSemiStructured and SparseBEGemm) fails its
\* assertion, before decompressing, when compress_transposed is true.
C6_TransposedPrecondition ==
    (Applied /\ weight.payload = "Compressed") =>
        /\ (/\ linear_method.storage_format_cls = SparseBEGemmStorageFormat
            /\ ~weight.compress_transposed) =>
               /\ result.status = "AssertionError"
               /\ result.kernel = ""
               /\ call.bias = "None" => result.at = "compress_transposed"
        /\ (/\ linear_method.storage_format_cls \notin
                   {SparseSemiStructuredStorageFormat, SparseBEGemmStorageFormat}
            /\ weight.compress_transposed) =>
               /\ result.status = "AssertionError"
               /\ result.at = "not compress_transposed"
               /\ result.operand = ""

C6_Witness ==
    /\ Applied
    /\ weight.payload = "Compressed"
    /\ linear_method.storage_format_cls = SparseBEGemmStorageFormat
    /\ ~weight.compress_transposed
    /\ call.bias = "None"
    /\ result.status = "AssertionError"
    /\ result.at = "compress_transposed"

LeastMultipleOf8(k, n) == k % 8 = 0 /\ k >= n /\ k - n < 8

\* C8 (SpecApply): every call that returns, in any of the four branches,
\* returns a tensor of shape x.shape[:-1] + (weight rows,) holding exactly
\* the rows of x, in order; the SparseSemiStructured branch always returns
\* for a weight compressed untransposed and no bias, and calls its kernel
\* with the least multiple of 8 that is >= the flattened row count n (n
\* itself when n is a multiple of 8).
C8_OutputShape ==
    Applied =>
        /\ result.status = "ok" =>
              /\ result.out.shape =
                     Leading(call.x.shape) \o <<weight.shape[1]>>
              /\ result.out.rows = Identity(FlatRows(call.x))
        /\ (/\ weight.payload = "Compressed"
            /\ linear_method.storage_format_cls =
                   SparseSemiStructuredStorageFormat
            /\ call.bias = "None") =>
              /\ ~weight.compress_transposed => result.status = "ok"
              /\ result.status = "ok" =>
                     LeastMultipleOf8(result.kernel_rows, FlatRows(call.x))

C8_Witness ==
    /\ Applied
    /\ weight.payload = "Compressed"
    /\ linear_method.storage_format_cls = SparseSemiStructuredStorageFormat
    /\ FlatRows(call.x) = 8
    /\ result.status = "ok"
    /\ result.kernel_rows = 8
    /\ Len(result.out.rows) = 8

C9_CreatedWeightMeetsPreconditions ==
    /\ weight # None =>
           (weight.compress_transposed <=>
                linear_method.storage_format_cls = SparseBEGemmStorageFormat)
    /\ Applied =>
           result.at \notin {"compress_transposed", "not compress_transposed"}

C9_Witness ==
    /\ Applied
    /\ weight.payload = "Compressed"
    /\ linear_method.storage_format_cls = SparseBEGemmStorageFormat
    /\ weight.compress_transposed
    /\ result.status = "ok"
    /\ result.kernel = "be_ds_gemm"

Finished == pc \in {"returned", "failed"}

Configured(config) == config # None

BelowMinimum(config) ==
    Capability(args.device_capability) < config.min_capability

DtypeUnsupported(config) == args.dtype \notin config.supported_act_dtypes

\* get_model reaches the configuration's block: the architecture resolved
\* and, for the sparsity block, the quantization block before it did not raise
QuantizationActive ==
    Configured(args.quantization) /\ args.architecture_supported

SparsityActive ==
    /\ Configured(args.sparsity)
    /\ args.architecture_supported
    /\ Configured(args.quantization) =>
           ~BelowMinimum(args.quantization) /\ ~DtypeUnsupported(args.quantization)

\* C2 (Spec): for the quantization and for the sparsity configuration, once
\* get_model has reached its block: a capability below the configuration's
\* minimum makes the call fail with that configuration's capability error
\* whatever the dtype (supported or not), and a capability at or above the
\* minimum with a dtype that is not supported makes it fail with that
\* configuration's dtype error. A configured capability below the minimum
\* never lets get_model return.
C2_CapabilityThenDtype ==
    /\ Finished =>
        /\ (QuantizationActive /\ BelowMinimum(args.quantization)) =>
               pc = "failed" /\ raised = "QuantizationCapabilityTooLow"
        /\ (/\ QuantizationActive
            /\ ~BelowMinimum(args.quantization)
            /\ DtypeUnsupported(args.quantization)) =>
               pc = "failed" /\ raised = "QuantizationDtypeUnsupported"
        /\ (SparsityActive /\ BelowMinimum(args.sparsity)) =>
               pc = "failed" /\ raised = "SparsityCapabilityTooLow"
        /\ (/\ SparsityActive
            /\ ~BelowMinimum(args.sparsity)
            /\ DtypeUnsupported(args.sparsity)) =>
               pc = "failed" /\ raised = "SparsityDtypeUnsupported"
    /\ \A config \in {args.quantization, args.sparsity} :
           (Configured(config) /\ BelowMinimum(config)) => pc # "returned"

C2_Witness ==
    /\ pc = "failed"
    /\ SparsityActive
    /\ BelowMinimum(args.sparsity)
    /\ DtypeUnsupported(args.sparsity)
    /\ raised = "SparsityCapabilityTooLow"

GateErrors ==
    {"QuantizationCapabilityTooLow", "QuantizationDtypeUnsupported",
     "SparsityCapabilityTooLow", "SparsityDtypeUnsupported"}

\* C3 (Spec): a model instance or a weight exists, and weights are loaded,
\* only after the capability and dtype checks of every configured
\* configuration have passed: none exists while get_model is still at or
\* before a check, and a call that failed a check has built no model and
\* loaded no weight.
C3_ChecksBeforeConstruction ==
    /\ (model # None \/ weight # None) =>
           \A config \in {args.quantization, args.sparsity} :
               Configured(config) =>
                   ~BelowMinimum(config) /\ ~DtypeUnsupported(config)
    /\ pc \in {"architecture", "quantization", "sparsity", "enter"} =>
           model = None /\ weight = None
    /\ raised \in GateErrors => model = None /\ weight = None
    /\ weight # None => model # None
    /\ (weight # None /\ weight.payload # "Empty") => model.loaded

C3_Witness ==
    /\ pc = "exit"
    /\ Configured(args.quantization)
    /\ Configured(args.sparsity)
    /\ model # None
    /\ model.loaded
    /\ weight # None
    /\ weight.payload = "Compressed"

\* C4 (Spec): when both a quantization and a sparsity configuration are
\* set, get_model fails: it constructs no model and does not return.
C4_BothConfiguredFails ==
    (Configured(args.quantization) /\ Configured(args.sparsity)) =>
        model = None /\ pc # "returned"

\* C10 (Spec): a call of get_model that entered the default-dtype context
\* ends, returning or raising, with the default dtype it found on entry.
C10_DefaultDtypeRestored ==
    (Finished /\ old_dtype # "None") => default_dtype = old_dtype

====
